---- MODULE Spec2Model ----
(***************************************************************************)
(* Counter service: gunicorn sync workers, each running the Flask          *)
(* application built by create_app (src/counter_service/app.py), against   *)
(* one Redis server that holds the 'counter' key and the rate limiter's    *)
(* window keys.                                                            *)
(***************************************************************************)
EXTENDS Integers, Sequences, FiniteSets, Bags, TLC

\* ------------------------------------------------------------------ bounds

\* Requests accepted over one behaviour (all workers together).
MaxRequests == 2
\* Clock ticks over one behaviour.
MaxTicks == 1

\* ------------------------------------------------------- program constants

\* default_limits=["100 per minute", "10 per second"]
PerSecondAmount == 10
PerSecondExpiry == 1
PerMinuteAmount == 100
PerMinuteExpiry == 60

Workers == {"w1", "w2"}
Clients == {"10.0.0.1", "10.0.0.2"}

\* GET / and POST / from one client: <<client, method, path>>.
CounterRequests == { <<"10.0.0.1", m, "/">> : m \in {"GET", "POST"} }

\* GET / and POST / from every client.
ClientRequests == { <<c, m, "/">> : c \in Clients, m \in {"GET", "POST"} }

\* The requests one client sends: to every route, to a path without a route
\* and with a method its path does not accept.
Requests ==
    CounterRequests \cup
    { <<"10.0.0.1", "GET", "/health">>, <<"10.0.0.1", "GET", "/metrics">>,
      <<"10.0.0.1", "GET", "/missing">>, <<"10.0.0.1", "POST", "/health">> }

\* ------------------------------------------------------------- the routes

\* Route with /health registered for every method.
RouteHealthAnyMethod(method, path) ==
    CASE path = "/" /\ method = "GET" -> "get_counter"
      [] path = "/" /\ method = "POST" -> "increment_counter"
      [] path = "/health" -> "health_check"
      [] path = "/metrics" /\ method = "GET" -> "metrics_endpoint"
      [] path \in {"/", "/metrics"} -> "405"
      [] OTHER -> ""

\* Route with GET / registered on the incrementing view.
RouteGetIncrements(method, path) ==
    CASE path = "/" /\ method \in {"GET", "POST"} -> "increment_counter"
      [] path = "/health" /\ method = "GET" -> "health_check"
      [] path = "/metrics" /\ method = "GET" -> "metrics_endpoint"
      [] path \in {"/", "/health", "/metrics"} -> "405"
      [] OTHER -> ""

\* @app.route(...) decorators: the view function (Flask endpoint) serving a
\* path and method; "" when the path has no route, "405" when the path has
\* routes but none for the method.
Route(method, path) ==
    CASE path = "/" /\ method = "GET" -> "get_counter"
      [] path = "/" /\ method = "POST" -> "increment_counter"
      [] path = "/health" /\ method = "GET" -> "health_check"
      [] path = "/metrics" /\ method = "GET" -> "metrics_endpoint"
      [] path \in {"/", "/health", "/metrics"} -> "405"
      [] OTHER -> ""

Endpoints == {"get_counter", "increment_counter", "health_check", "metrics_endpoint"}

\* LimiterExempt with the @limiter.exempt decorators left out.
LimiterExemptNone(endpoint) == FALSE

\* @limiter.exempt on health_check and metrics_endpoint.
LimiterExempt(endpoint) == endpoint \in {"health_check", "metrics_endpoint"}

\* DefaultLimits with "1000 per minute" for "100 per minute".
DefaultLimitsLoose ==
    << [name |-> "second", amount |-> PerSecondAmount, expiry |-> PerSecondExpiry],
       [name |-> "minute", amount |-> 10 * PerMinuteAmount, expiry |-> PerMinuteExpiry] >>

\* default_limits, in the order the limiter evaluates them (sorted by
\* granularity, smallest first).
DefaultLimits ==
    << [name |-> "second", amount |-> PerSecondAmount, expiry |-> PerSecondExpiry],
       [name |-> "minute", amount |-> PerMinuteAmount, expiry |-> PerMinuteExpiry] >>

\* ------------------------------------------------------------ the store

\* CounterKey naming a key the limiter also writes.
CounterKeyInWindow == <<"LIMITER", "10.0.0.1", "get_counter", "minute">>

\* The key the handlers read and increment.
CounterKey == <<"counter">>

\* LimiterKey without a key prefix of its own.
LimiterKeyCollides(client, endpoint, limit) == CounterKey

\* LimiterKey with a key function that returns the same address for every
\* client.
LimiterKeyAnyClient(client, endpoint, limit) == <<"LIMITER", "10.0.0.1", endpoint, limit>>

\* The key of one rate-limit window: key prefix, the client address
\* (get_remote_address), the endpoint (default limits are per route) and the
\* limit.
LimiterKey(client, endpoint, limit) == <<"LIMITER", client, endpoint, limit>>

LimiterKeys ==
    {LimiterKey(c, e, DefaultLimits[i].name) :
        c \in Clients, e \in Endpoints, i \in 1..Len(DefaultLimits)}

Keys == {CounterKey} \cup LimiterKeys

\* A key's value: absent, an integer, the empty string or a string that is
\* no integer; ttl = 0 means no expiry is set.
Nil == [kind |-> "nil", n |-> 0, ttl |-> 0]
IntVal(n, ttl) == [kind |-> "int", n |-> n, ttl |-> ttl]
EmptyStr == [kind |-> "empty", n |-> 0, ttl |-> 0]
JunkStr == [kind |-> "junk", n |-> 0, ttl |-> 0]

\* RedisGet answered by a replica that has received no write.
RedisGetReplica(store, key) == [kind |-> "nil", n |-> 0, ttl |-> 0]

\* redis_client.get(key) with decode_responses=True: None (here "nil"), or
\* the stored string.  The reply is the stored value without its expiry.
RedisGet(store, key) == [store[key] EXCEPT !.ttl = 0]

\* Whether INCR / INCRBY on the key is an error (value is not an integer).
RedisIncrFails(store, key) == store[key].kind \in {"empty", "junk"}

\* The store after INCRBY key 1: an absent key counts from 0, the expiry is
\* kept.
RedisIncr(store, key) ==
    [store EXCEPT ![key] = IntVal((IF @.kind = "int" THEN @.n ELSE 0) + 1, @.ttl)]

\* ParseCounter without the `or '0'`: int(None) raises.
ParseCounterStrict(reply) == IF reply.kind = "int" THEN reply.n ELSE -1

\* `value or '0'` followed by int(value): the integer, or -1 for ValueError.
ParseCounter(reply) ==
    CASE reply.kind \in {"nil", "empty"} -> 0
      [] reply.kind = "int" -> reply.n
      [] OTHER -> -1

\* LimiterIncr as a read followed by a write of 1: no count is kept.
LimiterIncrLost(store, key, expiry) == [store EXCEPT ![key] = IntVal(1, expiry)]

\* The limiter's fixed-window increment (storage.incr): INCRBY, and the first
\* hit of a window sets the key's expiry.
LimiterIncr(store, key, expiry) ==
    LET s1 == RedisIncr(store, key)
    IN  IF s1[key].n = 1 THEN [s1 EXCEPT ![key].ttl = expiry] ELSE s1

\* WithinLimit off by one.
WithinLimitOffByOne(count, amount) == count <= amount + 1

\* FixedWindowRateLimiter.hit: the request is within the limit iff the
\* incremented window count does not exceed the amount.
WithinLimit(count, amount) == count <= amount

\* The number a key holds (0 when it is absent).
Count(store, key) == IF store[key].kind = "int" THEN store[key].n ELSE 0

\* Expire with keys that outlive their expiry.
ExpireNothing(store) == store

\* One time unit passes at the store: expiries count down, expired keys go.
Expire(store) ==
    [k \in Keys |->
        IF store[k].ttl = 0 THEN store[k]
        ELSE IF store[k].ttl = 1 THEN Nil
        ELSE [store[k] EXCEPT !.ttl = @ - 1]]

\* ------------------------------------------------------------- the state

VARIABLES
    up,            \* the store accepts connections
    store,         \* the store's keys
    app,           \* per worker: "init", "running" or "crashed"
    redis_client,  \* per worker: "None" or "client"
    otel_metrics,  \* per worker: the instruments of get_otel_metrics
    req,           \* per worker: the request being served
    nreq,          \* requests accepted so far
    now,           \* time units elapsed
    hist           \* what has happened so far (for stating properties)

vars == <<up, store, app, redis_client, otel_metrics, req, nreq, now, hist>>

Idle == [pc |-> "idle", client |-> "", method |-> "", path |-> "", endpoint |-> "",
         lim |-> 0, attempt |-> 0, status |-> 0, count |-> 0,
         touched |-> FALSE, applied |-> 0, exc |-> "", nmin |-> 0,
         floor |-> 0, stamp |-> 0, echo |-> <<>>, prev |-> 0]

NoMetrics == [redis_status |-> 0, counter_value |-> 0,
              http_requests |-> EmptyBag, redis_operations |-> EmptyBag]

\* The counter key before the workers start: never set, an integer, or a
\* value some other client of the store wrote.
InitCounters == {Nil, IntVal(7, 0), JunkStr}

\* The endpoints the limiter counts.
Limited == {e \in Endpoints : ~LimiterExempt(e)}

\* Window keys the store may already hold from one client's earlier requests
\* to each rate-limited endpoint, all of them allowed: sec requests in the
\* current second and min in the current minute.
WindowsOf(sec, min) ==
    [k \in LimiterKeys |->
        IF k \in {LimiterKey("10.0.0.1", e, "second") : e \in Limited}
        THEN IntVal(sec, PerSecondExpiry)
        ELSE IF k \in {LimiterKey("10.0.0.1", e, "minute") : e \in Limited}
        THEN IntVal(min, 2)
        ELSE Nil]

\* The earlier requests <<sec, min>>: none; a full second window in a minute
\* window with one request left; a second window with one request left in a
\* full minute window; a second window with one request left.
InitCounts ==
    { <<0, 0>>,
      <<PerSecondAmount, PerMinuteAmount - 1>>,
      <<PerSecondAmount - 1, PerMinuteAmount>>,
      <<PerSecondAmount - 1, PerMinuteAmount - 2>> }

InitWindows(p) ==
    IF p[1] = 0 THEN [k \in LimiterKeys |-> Nil] ELSE WindowsOf(p[1], p[2])

Init ==
    /\ up \in BOOLEAN
    /\ \E c \in InitCounters, p \in InitCounts :
          /\ c.kind = "int" \/ p[1] = 0
          /\ store = [k \in Keys |-> IF k = CounterKey THEN c ELSE InitWindows(p)[k]]
          /\ hist = [counter0 |-> c, posts200 |-> 0, postsFailed |-> 0,
                     \* the largest value a POST / has returned with 200, and
                     \* the increments applied to the counter key
                     written |-> 0, applied |-> 0,
                     \* per client and endpoint: the requests that came to
                     \* the limiter in the current second / minute window,
                     \* and those of the current second it let through
                     sec |-> [cl \in Clients, e \in Limited |->
                                IF cl = "10.0.0.1" THEN p[1] ELSE 0],
                     min |-> [cl \in Clients, e \in Limited |->
                                IF cl = "10.0.0.1" THEN p[2] ELSE 0],
                     ok |-> [cl \in Clients, e \in Limited |->
                                IF cl = "10.0.0.1" THEN p[1] ELSE 0]]
    /\ app = [w \in Workers |-> "init"]
    /\ redis_client = [w \in Workers |-> "None"]
    /\ otel_metrics = [w \in Workers |-> NoMetrics]
    /\ req = [w \in Workers |-> Idle]
    /\ nreq = 0
    /\ now = 0

\* ------------------------------------------------------------ environment

StoreDown == up /\ up' = FALSE
             /\ UNCHANGED <<store, app, redis_client, otel_metrics, req, nreq, now, hist>>

StoreUp == ~up /\ up' = TRUE
           /\ UNCHANGED <<store, app, redis_client, otel_metrics, req, nreq, now, hist>>

Tick == /\ now < MaxTicks
        /\ now' = now + 1
        /\ store' = Expire(store)
        /\ hist' = [hist EXCEPT
              !.sec = [c \in Clients, e \in Limited |-> 0],
              !.ok = [c \in Clients, e \in Limited |-> 0],
              !.min = [c \in Clients, e \in Limited |->
                         IF store'[LimiterKey(c, e, "minute")] = Nil THEN 0
                         ELSE hist.min[c, e]]]
        /\ UNCHANGED <<up, app, redis_client, otel_metrics, req, nreq>>

\* ---------------------------------------------------------------- startup

\* Limiter(...) in create_app reads redis_client.connection_pool: with
\* redis_client = None this raises AttributeError and create_app does not
\* return.
LimiterConstructs(client) == client # "None"

\* create_app: ping the store; on any exception the client is dropped; then
\* the limiter is constructed and the routes are registered.
create_app(w) ==
    /\ app[w] = "init"
    /\ LET pinged == up
           client == IF pinged THEN "client" ELSE "None"
       IN  /\ redis_client' = [redis_client EXCEPT ![w] = client]
           /\ otel_metrics' = [otel_metrics EXCEPT
                                 ![w].redis_status = @ + (IF pinged THEN 1 ELSE -1)]
           /\ app' = [app EXCEPT ![w] =
                        IF LimiterConstructs(client) THEN "running" ELSE "crashed"]
    /\ UNCHANGED <<up, store, req, nreq, now, hist>>

\* ------------------------------------------------------- request handling

\* retry_on_timeout=True: a command that times out is sent once more.
MaxAttempts == 2

\* What one command sent to the store can come to: a reply, a timeout
\* (socket_timeout / socket_connect_timeout), a refused connection, or a
\* rejected credential on a new connection.
Outcomes == IF up THEN {"ok", "timeout", "auth"} ELSE {"refused", "timeout"}

\* The redis.exceptions class a failed command raises.
ExcOf(outcome) ==
    CASE outcome = "timeout" -> "TimeoutError"
      [] outcome = "auth" -> "AuthenticationError"
      [] OTHER -> "ConnectionError"

\* `except RedisConnectionError`: redis.exceptions.ConnectionError and its
\* subclass AuthenticationError; TimeoutError is not a subclass.
IsRedisConnectionError(exc) == exc \in {"ConnectionError", "AuthenticationError"}

\* The except clauses of get_counter and increment_counter.
HandlerStatus(exc) == IF IsRedisConnectionError(exc) THEN 503 ELSE 500

Record(bag, labels) == bag (+) SetToBag({labels})

\* A worker (worker_class = 'sync': one request at a time) takes the next
\* request off the socket once the previous response is sent; Flask routes it, and the
\* limiter's before_request hook runs unless there is no endpoint or the
\* endpoint is exempt.
Receive(w, c, m, p) ==
    /\ app[w] = "running"
    /\ req[w].pc \in {"idle", "done"}
    /\ nreq < MaxRequests
    /\ nreq' = nreq + 1
    /\ LET e == Route(m, p)
       IN  req' = [req EXCEPT ![w] =
                [Idle EXCEPT !.client = c, !.method = m, !.path = p, !.endpoint = e,
                             !.attempt = 1, !.floor = hist.written,
                             !.prev = req[w].status,
                             !.lim = IF e \in Endpoints /\ ~LimiterExempt(e) THEN 1 ELSE 0,
                             !.pc = IF e \notin Endpoints THEN "errorhandler"
                                    ELSE IF LimiterExempt(e) THEN "view"
                                    ELSE "limit"]]
    /\ UNCHANGED <<up, store, app, redis_client, otel_metrics, now, hist>>

\* The request is over; POST / outcomes are counted.
Answered(h, r, status) ==
    IF r.endpoint = "increment_counter"
    THEN IF status = 200 THEN [h EXCEPT !.posts200 = @ + 1]
         ELSE [h EXCEPT !.postsFailed = @ + 1]
    ELSE h

\* The store has applied the increments worker w's request (now r) sent in
\* this step.
Applied(h, w, r) == [h EXCEPT !.applied = @ + (r.applied - req[w].applied)]

\* A POST / has returned count with 200.
Written(h, r, status, count) ==
    IF r.endpoint = "increment_counter" /\ status = 200 /\ count > h.written
    THEN [h EXCEPT !.written = count]
    ELSE h

Answer(w, r, status, count) ==
    /\ req' = [req EXCEPT ![w] = [r EXCEPT !.pc = "done", !.status = status, !.count = count]]
    /\ hist' = Written(Answered(Applied(hist, w, r), r, status), r, status, count)

\* The request comes to the limiter: it is one more request of its client
\* to its endpoint in the current windows.
Arrived(h, r) ==
    IF r.lim = 1
    THEN [h EXCEPT !.sec[r.client, r.endpoint] = @ + 1,
                   !.min[r.client, r.endpoint] = @ + 1]
    ELSE h

\* The limiter evaluates the next default limit for the request: one atomic
\* increment of the window key at the store.  A storage error is not
\* swallowed and leaves before_request as an unhandled exception (500); a
\* breached limit raises RateLimitExceeded (429) and later limits are not
\* evaluated.
RateLimitHit(w) ==
    LET r0 == req[w]
        h == Arrived(hist, r0)
        r == IF r0.lim = 1 THEN [r0 EXCEPT !.nmin = h.min[r0.client, r0.endpoint]] ELSE r0
        l == DefaultLimits[r.lim]
        key == LimiterKey(r.client, r.endpoint, l.name)
        s1 == LimiterIncr(store, key, l.expiry)
        answer(status) ==
            /\ req' = [req EXCEPT ![w] = [r EXCEPT !.pc = "done", !.status = status]]
            /\ hist' = Answered(h, r, status)
    IN  /\ r0.pc = "limit"
        /\ IF ~up
           THEN answer(500) /\ UNCHANGED store
           ELSE /\ store' = s1
                /\ IF ~WithinLimit(s1[key].n, l.amount)
                   THEN answer(429)
                   ELSE /\ req' = [req EXCEPT ![w] =
                              IF r.lim < Len(DefaultLimits)
                              THEN [r EXCEPT !.lim = @ + 1]
                              ELSE [r EXCEPT !.pc = "view"]]
                        /\ hist' = IF r.lim < Len(DefaultLimits) THEN h
                                   ELSE [h EXCEPT !.ok[r.client, r.endpoint] = @ + 1]
        /\ UNCHANGED <<up, app, redis_client, otel_metrics, nreq, now>>

\* The success path of get_counter / increment_counter after the store call.
Succeeds(w, r, count, op) ==
    /\ otel_metrics' = [otel_metrics EXCEPT
          ![w].redis_operations = Record(@, <<op, "success">>),
          ![w].counter_value = @ + count,
          ![w].http_requests = Record(@, <<r.method, "/", 200>>)]
    /\ Answer(w, [r EXCEPT !.stamp = hist.applied + (r.applied - req[w].applied)],
              200, count)

\* The except clauses of get_counter / increment_counter.
Fails(w, r, exc) ==
    /\ otel_metrics' = [otel_metrics EXCEPT
          ![w].http_requests = Record(@, <<r.method, "/", HandlerStatus(exc)>>)]
    /\ Answer(w, [r EXCEPT !.exc = exc], HandlerStatus(exc), 0)

\* The store client sends the command again after a timeout.
Retries(w, r) ==
    /\ req' = [req EXCEPT ![w] = [r EXCEPT !.attempt = @ + 1]]
    /\ hist' = Applied(hist, w, r)
    /\ UNCHANGED otel_metrics

\* GET /
get_counter(w) ==
    LET r == req[w]
    IN  /\ r.pc = "view" /\ r.endpoint = "get_counter"
        /\ UNCHANGED <<up, store, app, redis_client, nreq, now>>
        /\ IF redis_client[w] = "None"
           THEN Fails(w, r, "ConnectionError")
           ELSE \E o \in Outcomes :
                  LET r1 == [r EXCEPT !.touched = TRUE]
                      count == ParseCounter(RedisGet(store, CounterKey))
                  IN  IF o = "ok"
                      THEN IF count < 0 THEN Fails(w, r1, "ValueError")
                                        ELSE Succeeds(w, r1, count, "get")
                      ELSE IF o = "timeout" /\ r.attempt < MaxAttempts
                           THEN Retries(w, r1)
                           ELSE Fails(w, r1, ExcOf(o))

\* POST /
increment_counter(w) ==
    LET r == req[w]
    IN  /\ r.pc = "view" /\ r.endpoint = "increment_counter"
        /\ UNCHANGED <<up, app, redis_client, nreq, now>>
        /\ IF redis_client[w] = "None"
           THEN Fails(w, r, "ConnectionError") /\ UNCHANGED store
           ELSE \E o \in Outcomes, reached \in BOOLEAN :
                  \* reached: the command got to the store and was executed
                  \* (always for a reply, never when the store is down)
                  LET r1 == [r EXCEPT !.touched = TRUE]
                      bad == RedisIncrFails(store, CounterKey)
                      done == reached /\ ~bad
                      s1 == IF done THEN RedisIncr(store, CounterKey) ELSE store
                      r2 == [r1 EXCEPT !.applied = @ + (IF done THEN 1 ELSE 0)]
                  IN  /\ reached = (o = "ok" \/ (o = "timeout" /\ up /\ reached))
                      /\ store' = s1
                      /\ IF o = "ok"
                         THEN IF bad THEN Fails(w, r2, "ResponseError")
                                     ELSE Succeeds(w, r2, s1[CounterKey].n, "incr")
                         ELSE IF o = "timeout" /\ r.attempt < MaxAttempts
                              THEN Retries(w, r2)
                              ELSE Fails(w, r2, ExcOf(o))

\* HealthStatus with the except clause returning 200 as well.
HealthStatusAlwaysHealthy(pinged) == 200

\* The returns of health_check: 200 after redis_client.ping() returned, 503
\* without a client or after ping raised.
HealthStatus(pinged) == IF pinged THEN 200 ELSE 503

\* GET /health
health_check(w) ==
    LET r == req[w]
    IN  /\ r.pc = "view" /\ r.endpoint = "health_check"
        /\ UNCHANGED <<up, store, app, redis_client, nreq, now>>
        /\ IF redis_client[w] = "None"
           THEN /\ otel_metrics' = [otel_metrics EXCEPT ![w].redis_status = @ - 1]
                /\ Answer(w, r, HealthStatus(FALSE), 0)
           ELSE \E o \in Outcomes :
                  LET r1 == r
                  IN  IF o = "ok"
                      THEN /\ otel_metrics' = [otel_metrics EXCEPT ![w].redis_status = @ + 1]
                           /\ Answer(w, r1, HealthStatus(TRUE), 0)
                      ELSE IF o = "timeout" /\ r.attempt < MaxAttempts
                           THEN Retries(w, r1)
                           ELSE /\ otel_metrics' = [otel_metrics EXCEPT
                                                      ![w].redis_status = @ - 1]
                                /\ Answer(w, [r1 EXCEPT !.exc = ExcOf(o)],
                                          HealthStatus(FALSE), 0)

\* GET /metrics: generate_latest(), and once more in the except clause; an
\* exception of the second call is not caught.
metrics_endpoint(w) ==
    LET r == req[w]
    IN  /\ r.pc = "view" /\ r.endpoint = "metrics_endpoint"
        /\ \E raises1, raises2 \in BOOLEAN :
              Answer(w, r, IF raises1 /\ raises2 THEN 500 ELSE 200, 0)
        /\ UNCHANGED <<up, store, app, redis_client, otel_metrics, nreq, now>>

\* @app.errorhandler(404)
not_found(w) ==
    LET r == req[w]
    IN  /\ r.pc = "errorhandler" /\ r.endpoint = ""
        /\ otel_metrics' = [otel_metrics EXCEPT
              ![w].http_requests = Record(@, <<r.method, r.path, 404>>)]
        \* "The endpoint {request.path} does not exist"
        /\ Answer(w, [r EXCEPT !.echo = <<r.path>>], 404, 0)
        /\ UNCHANGED <<up, store, app, redis_client, nreq, now>>

\* @app.errorhandler(405)
method_not_allowed(w) ==
    LET r == req[w]
    IN  /\ r.pc = "errorhandler" /\ r.endpoint = "405"
        /\ otel_metrics' = [otel_metrics EXCEPT
              ![w].http_requests = Record(@, <<r.method, r.path, 405>>)]
        \* "Method {request.method} is not allowed for {request.path}"
        /\ Answer(w, [r EXCEPT !.echo = <<r.method, r.path>>], 405, 0)
        /\ UNCHANGED <<up, store, app, redis_client, nreq, now>>

\* The store, the network and the clock.
Env == StoreDown \/ StoreUp \/ Tick

\* Worker w starts, or takes a step of serving one of the requests Q on the
\* counter endpoints.
ServeCounter(w, Q) ==
    \/ create_app(w)
    \/ \E q \in Q : Receive(w, q[1], q[2], q[3])
    \/ RateLimitHit(w)
    \/ get_counter(w)
    \/ increment_counter(w)

\* Worker w takes a step of serving a request on another path.
ServeOther(w) ==
    \/ health_check(w)
    \/ metrics_endpoint(w)
    \/ not_found(w)
    \/ method_not_allowed(w)

\* One worker, every request.
Next == Env \/ ServeCounter("w1", Requests) \/ ServeOther("w1")

Spec == Init /\ [][Next]_vars

\* Several workers serving GET / and POST / of one client concurrently,
\* within one time unit.
NextWorkers ==
    StoreDown \/ StoreUp \/ \E w \in Workers : ServeCounter(w, CounterRequests)

SpecWorkers == Init /\ [][NextWorkers]_vars

\* One worker serving GET / and POST / of several clients, within one time
\* unit.
NextClients == StoreDown \/ StoreUp \/ ServeCounter("w1", ClientRequests)

SpecClients == Init /\ [][NextClients]_vars

\* ------------------------------------------------------------- properties

CounterEndpoints == {"get_counter", "increment_counter"}

\* Worker w takes a step of serving its request.
Steps(w) == req[w].pc \in {"limit", "view", "errorhandler"} /\ req'[w] # req[w]

\* Worker w sends its response in this step.
Answers(w) == req[w].pc # "done" /\ req'[w].pc = "done"

\* No request is being served.
Quiescent == \A w \in Workers : req[w].pc \in {"idle", "done"}

\* C1: no lost updates.  When every POST / so far has returned 200 and none
\* is in flight, the stored counter equals its value before the first of them
\* plus the number of them.
C1_NoLostUpdates ==
    (Quiescent /\ hist.postsFailed = 0 /\ hist.counter0.kind \in {"nil", "int"})
        => Count(store, CounterKey) = ParseCounter(hist.counter0) + hist.posts200

\* C2: a POST / that returns 200 has applied exactly one increment at the
\* store (never zero, never two), also when the store client re-sent the
\* command after a timeout.
C2_ExactlyOneIncrement ==
    \A w \in Workers :
        (req[w].pc = "done" /\ req[w].endpoint = "increment_counter" /\ req[w].status = 200)
            => req[w].applied = 1

\* C3: while the store is unreachable, the handler of GET / or POST /
\* attempts no call on the counter key, and the response it sends is the 503.
C3_DisconnectedShortCircuits ==
    [][\A w \in Workers :
          (~up /\ Steps(w) /\ req[w].pc = "view" /\ req[w].endpoint \in CounterEndpoints)
              => /\ req'[w].touched = req[w].touched
                 /\ (Answers(w) => req'[w].status = 503)]_vars

\* C4: a store that is unreachable at startup is not fatal: no worker ends
\* up crashed.
C4_StartupFailureNonFatal == \A w \in Workers : app[w] # "crashed"

\* C5: the store call of GET / or POST / that fails with a timeout, a refused
\* connection or an authentication failure is answered 503, any other
\* failure 500, and no failure 200.
C5_FailureClassification ==
    \A w \in Workers :
        (req[w].pc = "done" /\ req[w].endpoint \in CounterEndpoints /\ req[w].exc # "")
            => req[w].status =
                 (IF req[w].exc \in {"TimeoutError", "ConnectionError", "AuthenticationError"}
                  THEN 503 ELSE 500)

\* The window keys of worker w's request.
SecondKey(w) == LimiterKey(req[w].client, req[w].endpoint, "second")
MinuteKey(w) == LimiterKey(req[w].client, req[w].endpoint, "minute")

\* The limiter evaluates limit i for worker w's request in this step.
Evaluates(w, i) == req[w].pc = "limit" /\ req[w].lim = i /\ Steps(w)

\* The limiter answers worker w's request with 429 in this step.
Denied(w) == Answers(w) /\ req'[w].status = 429

C8_ExemptNeverLimited ==
    [][\A w \in Workers :
          (Steps(w) /\ req[w].endpoint \in {"health_check", "metrics_endpoint"})
              => /\ req'[w].status # 429
                 /\ \A k \in LimiterKeys : store'[k] = store[k]]_vars

C8_Witness ==
    \E w \in Workers :
        /\ req[w].pc = "done" /\ req[w].endpoint = "health_check" /\ req[w].status = 200
        /\ \E e \in Limited :
              Count(store, LimiterKey(req[w].client, e, "second")) >= PerSecondAmount

\* C9: the limiter's accounting never changes the counter key, and a request
\* answered 429 has neither read nor incremented it.
C9_DeniedLeavesCounter ==
    [][\A w \in Workers :
          /\ (Steps(w) /\ req[w].pc = "limit") => store'[CounterKey] = store[CounterKey]
          /\ Denied(w) => /\ ~req'[w].touched
                          /\ req'[w].applied = 0
                          /\ store'[CounterKey] = store[CounterKey]]_vars

C9_Witness ==
    \E w \in Workers :
        /\ req[w].pc = "done" /\ req[w].status = 429
        /\ req[w].endpoint = "increment_counter"
        /\ ~req[w].touched
        /\ store[CounterKey] = hist.counter0

\* C10: no step of a GET / request changes the stored counter.
C10_GetNeverMutates ==
    [][\A w \in Workers :
          (Steps(w) /\ req[w].method = "GET" /\ req[w].path = "/")
              => store'[CounterKey] = store[CounterKey]]_vars

\* A GET / has returned the counter while a POST / served by another worker
\* has incremented it.
C10_Witness ==
    \E w, v \in Workers :
        /\ req[w].pc = "done" /\ req[w].method = "GET" /\ req[w].path = "/"
        /\ req[w].status = 200 /\ req[w].touched
        /\ req[w].count = Count(store, CounterKey)
        /\ v # w /\ req[v].endpoint = "increment_counter" /\ req[v].applied = 1

\* The exceptions of a store command that got no reply.
StoreFailures == {"TimeoutError", "ConnectionError", "AuthenticationError"}

\* Worker w has answered a GET / with 200.
GotCounter(w) ==
    req[w].pc = "done" /\ req[w].endpoint = "get_counter" /\ req[w].status = 200

\* C11: read-after-write.  A GET / answered 200 reports at least the largest
\* value any POST / had returned with 200 before the GET / was received,
\* whichever workers served the two.
C11_ReadAfterWrite ==
    \A w \in Workers : GotCounter(w) => req[w].count >= req[w].floor

\* A GET / was received by one worker after another worker's POST / had
\* returned, and has reported a value.
C11_Witness ==
    \E w, v \in Workers :
        /\ w # v /\ GotCounter(w) /\ req[w].floor > 0
        /\ req[v].pc = "done" /\ req[v].endpoint = "increment_counter"
        /\ req[v].status = 200 /\ req[v].count = req[w].floor

\* C12: a GET / whose store call got its reply while the counter key is
\* absent is answered 200 with counter 0, never 500 or 503.
C12_AbsentKeyReadsZero ==
    \A w \in Workers :
        (/\ req[w].pc = "done" /\ req[w].endpoint = "get_counter"
         /\ req[w].touched /\ req[w].exc \notin StoreFailures
         /\ store[CounterKey] = Nil)
            => (req[w].status = 200 /\ req[w].count = 0)

C12_Witness ==
    \E w \in Workers :
        /\ GotCounter(w) /\ req[w].touched /\ req[w].count = 0
        /\ store[CounterKey] = Nil /\ hist.counter0 = Nil

\* C13: two GET / answered 200 with the same number of increments applied
\* to the counter key before each of them report the same value.
C13_GetIdempotent ==
    \A w, v \in Workers :
        (GotCounter(w) /\ GotCounter(v) /\ req[w].stamp = req[v].stamp)
            => req[w].count = req[v].count

\* Two workers have each answered a GET / and no increment was applied
\* between the two reads.
C13_Witness ==
    \E w, v \in Workers :
        /\ w # v /\ GotCounter(w) /\ GotCounter(v)
        /\ req[w].touched /\ req[v].touched
        /\ req[w].stamp = req[v].stamp /\ req[w].count = req[v].count
        /\ hist.counter0.kind = "int"

\* C14: every GET /metrics is answered 200, also when the metrics export
\* raises.
C14_MetricsAlways200 ==
    \A w \in Workers :
        (req[w].pc = "done" /\ req[w].endpoint = "metrics_endpoint") => req[w].status = 200

\* C15: GET /health is answered 200 when the ping of this request returned
\* and 503 otherwise, never anything else; a 200 is only given while the
\* store is reachable.
C15_HealthReflectsPing ==
    [][\A w \in Workers :
          (Answers(w) /\ req[w].endpoint = "health_check")
              => /\ req'[w].status =
                      (IF redis_client[w] = "client" /\ req'[w].exc = "" THEN 200 ELSE 503)
                 /\ (req'[w].status = 200 => up)]_vars

\* A health check has answered 503 from a ping that was refused by a store
\* that is down.
C15_Witness ==
    \E w \in Workers :
        /\ req[w].pc = "done" /\ req[w].endpoint = "health_check"
        /\ req[w].status = 503 /\ req[w].exc = "ConnectionError" /\ ~up

\* The paths that have a route, and the methods each accepts.
KnownPaths == {"/", "/health", "/metrics"}
Accepted(path) == IF path = "/" THEN {"GET", "POST"} ELSE {"GET"}

\* C16: a request to a path without a route is answered 404 with the path
\* echoed, a request with a method its path does not accept 405 with method
\* and path echoed; the answer adds exactly one request-counter record, with
\* that status, and the request touches no key of the store.
C16_UnroutedAnswered ==
    [][\A w \in Workers :
          (Answers(w) /\ (req[w].path \notin KnownPaths
                          \/ req[w].method \notin Accepted(req[w].path)))
              => LET r == req'[w]
                     known == r.path \in KnownPaths
                     status == IF known THEN 405 ELSE 404
                 IN  /\ r.status = status
                     /\ r.echo = (IF known THEN <<r.method, r.path>> ELSE <<r.path>>)
                     /\ otel_metrics'[w].http_requests =
                            otel_metrics[w].http_requests
                                (+) SetToBag({<<r.method, r.path, status>>})
                     /\ ~r.touched /\ r.applied = 0
                     /\ store' = store]_vars

\* A POST /health has been answered 405 while the counter key is as it was.
C16_Witness ==
    \E w \in Workers :
        /\ req[w].pc = "done" /\ req[w].status = 405
        /\ req[w].method = "POST" /\ req[w].path = "/health"
        /\ req[w].echo = <<"POST", "/health">>
        /\ BagIn(<<"POST", "/health", 405>>, otel_metrics[w].http_requests)
        /\ store[CounterKey] = hist.counter0

\* C17: a worker that has started, with the store reachable or not, is
\* running and holds the store client it needs to answer 200 once the store
\* is reachable.
C17_RecoversWithoutRestart ==
    \A w \in Workers :
        app[w] # "init" => (app[w] = "running" /\ redis_client[w] = "client")

\* The requests of client c the limiter has let through in the current
\* second, over the rate-limited endpoints.
AllowedInSecond(h, c) == h.ok[c, "get_counter"] + h.ok[c, "increment_counter"]

\* The limiter lets worker w's request through in this step.
Allowed(w) == req[w].pc = "limit" /\ req'[w].pc = "view"

\* C18 as stated: whichever workers serve them, no request is let through
\* as more than the 10th of its client in the current second.
C18_TenPerClient ==
    [][\A w \in Workers :
          Allowed(w) => AllowedInSecond(hist', req[w].client) <= PerSecondAmount]_vars

\* C18 as amended: whichever workers serve them, at most 10 requests of one
\* client to one rate-limited endpoint are let through in one second.
C18_TenPerEndpoint ==
    \A c \in Clients, e \in Limited : hist.ok[c, e] <= PerSecondAmount

\* With one request left in the second, two workers have taken a request of
\* the same client to the same endpoint: one is being served, the other was
\* denied.
C18_Witness ==
    \E w, v \in Workers :
        /\ w # v /\ req[w].client = req[v].client /\ req[w].endpoint = req[v].endpoint
        /\ req[v].pc = "view"
        /\ req[w].pc = "done" /\ req[w].status = 429 /\ req[w].lim = 1
        /\ hist.ok[req[w].client, req[w].endpoint] = PerSecondAmount
        /\ Count(store, SecondKey(w)) = PerSecondAmount + 1

C20_DeniedByOwnRequests ==
    [][\A w \in Workers :
          Denied(w) =>
              IF req[w].lim = 1
              THEN hist'.sec[req[w].client, req[w].endpoint] > PerSecondAmount
              ELSE hist'.min[req[w].client, req[w].endpoint] > PerMinuteAmount]_vars

\* A request of one client is let through right after a request was denied,
\* while the second window of the other client for the same endpoint is
\* over its limit.
C20_Witness ==
    \E w \in Workers :
        /\ req[w].client = "10.0.0.2" /\ req[w].prev = 429
        /\ req[w].pc = "done" /\ req[w].status = 200
        /\ Count(store, LimiterKey("10.0.0.1", req[w].endpoint, "second")) > PerSecondAmount

\* C21: the response to a GET / or POST /, also one the rate limiter gives,
\* adds exactly one request-counter record, with the request's method, the
\* endpoint "/" and the status returned.
C21_OneRecordPerResponse ==
    [][\A w \in Workers :
          (Answers(w) /\ req[w].endpoint \in CounterEndpoints)
              => otel_metrics'[w].http_requests =
                    otel_metrics[w].http_requests
                        (+) SetToBag({<<req[w].method, "/", req'[w].status>>})]_vars

\* C22: after a worker has answered GET / or POST / with 200, its
\* counter_value metric is the counter value that response reported.
C22_CounterValueIsCurrent ==
    \A w \in Workers :
        (req[w].pc = "done" /\ req[w].endpoint \in CounterEndpoints /\ req[w].status = 200)
            => otel_metrics[w].counter_value = req[w].count

\* C23: the redis_connection_status metric of a running worker is 0 or 1,
\* and after a health check it is 1 exactly when the check's ping succeeded.
C23_RedisStatusIsFlag ==
    \A w \in Workers :
        app[w] = "running"
            => /\ otel_metrics[w].redis_status \in {0, 1}
               /\ (req[w].pc = "done" /\ req[w].endpoint = "health_check")
                     => otel_metrics[w].redis_status = (IF req[w].status = 200 THEN 1 ELSE 0)
====
